---- MODULE Spec2Model ----
(***************************************************************************)
(* A model of the VeroBrix launcher (verobrix_launcher.py):                *)
(*   - VeroBrixSystem.__init__, analyze_situation, _save_analysis_results  *)
(*     and the top-level driver main() as a state machine over the clock,  *)
(*     the provenance log, the output directory and the console;           *)
(*   - _generate_recommendations and the contradictions section of         *)
(*     print_analysis_summary as operators, each exercised by a            *)
(*     specification that draws its inputs from bounded sets.              *)
(* The collaborators (SituationInterpreter, JARVIS, FRIDAY,                *)
(* RemedySynthesizer) are outside the launcher: each call returns a value  *)
(* fixed by the text it is given, or raises.                               *)
(***************************************************************************)
EXTENDS Integers, Sequences, FiniteSets, TLC

VARIABLES
    \* ---- the process environment
    clock,        \* wall clock, in ticks of 1/TicksPerSecond second
    fs,           \* the output directory: file name -> content
    log,          \* the provenance log: the calls of log_provenance, in order
    \* ---- VeroBrixSystem instances
    session_id,   \* instance -> self.session_id (NoSession before __init__)
    \* ---- analyze_situation (synchronous: a call runs from entry to its end)
    events,       \* what the last call did: log entries and calls, in order
    ret,          \* how the last call left analyze_situation
    ncalls,       \* number of calls made
    nfaults,      \* number of exceptions raised so far
    lastok,       \* instance -> results of its last call whose write succeeded
    wrote,        \* instance -> the files its calls have written to
    \* ---- main()
    mpc,          \* position of the driver
    loaded,       \* its input_text
    stdout,       \* lines it printed
    \* ---- _generate_recommendations exercised on its own
    rpc, rin, rout, rprev,
    \* ---- print_analysis_summary's contradictions section exercised on its own
    spc, sin, sout

sysVars == <<clock, fs, log, session_id, events, ret, ncalls, nfaults, lastok, wrote, mpc, loaded, stdout>>
recVars == <<rpc, rin, rout, rprev>>
sumVars == <<spc, sin, sout>>
vars == <<clock, fs, log, session_id, events, ret, ncalls, nfaults, lastok, wrote, mpc, loaded, stdout,
          rpc, rin, rout, rprev, spc, sin, sout>>

(***************************************************************************)
(* _generate_recommendations                                               *)
(***************************************************************************)

\* the three strings of the urgency rule
UrgencyActions ==
    << "URGENT: Time-sensitive situation detected",
       "Review all deadlines and timelines immediately",
       "Consider emergency legal consultation" >>

RiskAction == "HIGH RISK: Seek immediate legal counsel"
RiskWarning == "Situation contains high-risk legal elements"
ContradictionAction == "Challenge contradictory provisions in documents"
ToneOpportunity == "Document contains favorable language - preserve these terms"
JurisdictionOpportunity == "Commercial jurisdiction may provide UCC protections"

\* the situation -> actions table, keyed by situation type
situation_actions ==
    [ traffic_stop |->
        [ immediate  |-> <<"Document all details of the encounter", "Preserve any evidence">>,
          short_term |-> <<"Review citation for errors", "Research applicable traffic laws">>,
          long_term  |-> <<"Consider challenging jurisdiction", "File administrative remedy if applicable">> ],
      fee_demand |->
        [ immediate  |-> <<"Do not pay without challenging authority", "Request fee schedule">>,
          short_term |-> <<"Challenge lawful authority for fee", "Demand due process hearing">>,
          long_term  |-> <<"File administrative appeal", "Consider legal action if rights violated">> ],
      court_summons |->
        [ immediate  |-> <<"Calculate response deadline", "Preserve all rights">>,
          short_term |-> <<"File appropriate response", "Challenge jurisdiction if applicable">>,
          long_term  |-> <<"Prepare defense strategy", "Consider counterclaims if applicable">> ] ]

\* remedy.get('contradictions') is truthy: the key is present and its list is
\* not empty
RemedyHasContradictions(remedy) ==
    /\ "contradictions" \in DOMAIN remedy
    /\ Len(remedy.contradictions) > 0

\* a mutant: the urgency rule also files a warning
AfterUrgencyWithWarning(situation, recs) ==
    IF situation.urgency.level = "high"
    THEN [recs EXCEPT !.immediate_actions = @ \o UrgencyActions,
                      !.warnings = Append(@, "URGENT: Time-sensitive situation detected")]
    ELSE recs

\* recommendations after the urgency rule
AfterUrgency(situation, recs) ==
    IF situation.urgency.level = "high"
    THEN [recs EXCEPT !.immediate_actions = @ \o UrgencyActions]
    ELSE recs

\* recommendations after the risk rule
AfterRisk(legal_summary, recs) ==
    IF legal_summary.risk_level = "HIGH"
    THEN [recs EXCEPT !.immediate_actions = Append(@, RiskAction),
                      !.warnings = Append(@, RiskWarning)]
    ELSE recs

\* recommendations after the contradictions rule
AfterContradictions(remedy, recs) ==
    IF RemedyHasContradictions(remedy)
    THEN [recs EXCEPT !.short_term_actions = Append(@, ContradictionAction)]
    ELSE recs

\* a mutant: the table's immediate actions are put in front of the list
AfterSituationTypeInFront(situation, recs) ==
    IF situation.type \in DOMAIN situation_actions
    THEN LET actions == situation_actions[situation.type]
         IN  [recs EXCEPT !.immediate_actions = actions.immediate \o @,
                          !.short_term_actions = @ \o actions.short_term,
                          !.long_term_actions = @ \o actions.long_term]
    ELSE recs

\* a mutant: a type missing from the table falls back to the first entry
AfterSituationTypeWithDefault(situation, recs) ==
    LET actions == IF situation.type \in DOMAIN situation_actions
                   THEN situation_actions[situation.type]
                   ELSE situation_actions["traffic_stop"]
    IN  [recs EXCEPT !.immediate_actions = @ \o actions.immediate,
                     !.short_term_actions = @ \o actions.short_term,
                     !.long_term_actions = @ \o actions.long_term]

\* recommendations after the situation-type table rule
AfterSituationType(situation, recs) ==
    IF situation.type \in DOMAIN situation_actions
    THEN LET actions == situation_actions[situation.type]
         IN  [recs EXCEPT !.immediate_actions = @ \o actions.immediate,
                          !.short_term_actions = @ \o actions.short_term,
                          !.long_term_actions = @ \o actions.long_term]
    ELSE recs

\* recommendations after the two opportunity rules
AfterOpportunities(situation, legal_summary, recs) ==
    LET r1 == IF legal_summary.tone_summary = "positive"
              THEN [recs EXCEPT !.opportunities = Append(@, ToneOpportunity)]
              ELSE recs
    IN  IF situation.jurisdiction.primary = "commercial"
        THEN [r1 EXCEPT !.opportunities = Append(@, JurisdictionOpportunity)]
        ELSE r1

EmptyRecommendations ==
    [ immediate_actions |-> <<>>, short_term_actions |-> <<>>,
      long_term_actions |-> <<>>, warnings |-> <<>>, opportunities |-> <<>> ]

generate_recommendations(situation, legal_summary, remedy) ==
    AfterOpportunities(situation, legal_summary,
      AfterSituationType(situation,
        AfterContradictions(remedy,
          AfterRisk(legal_summary,
            AfterUrgency(situation, EmptyRecommendations)))))

\* ---- the inputs _generate_recommendations is exercised on

SituationTypes == {"traffic_stop", "fee_demand", "court_summons", "debt_collection", "unknown"}
UrgencyLevels == {"low", "medium", "high"}
RiskLevels == {"LOW", "MEDIUM", "HIGH"}
ToneSummaries == {"positive", "neutral", "negative"}
Jurisdictions == {"commercial", "statutory"}

BareContradiction == [kind |-> "str", val |-> "Clause 2 conflicts with clause 5"]

\* a Remedy Result without the pass-through field, with an empty one and with
\* a non-empty one
RecRemedies ==
    { [legal_strategies |-> <<"Challenge jurisdiction">>],
      [legal_strategies |-> <<"Challenge jurisdiction">>, contradictions |-> <<>>],
      [legal_strategies |-> <<"Challenge jurisdiction">>, contradictions |-> <<BareContradiction>>] }

RecSituation(t, u, j) ==
    [ type |-> t,
      urgency |-> [level |-> u],
      jurisdiction |-> [primary |-> j, secondary |-> <<>>],
      entities |-> [people |-> <<>>, organizations |-> <<>>],
      legal_framework |-> "statutory" ]

RecInputs ==
    { [ situation |-> RecSituation(t, u, j),
        legal_summary |-> [risk_level |-> r, tone_summary |-> o],
        remedy |-> m ] :
      t \in SituationTypes, u \in UrgencyLevels, j \in Jurisdictions,
      r \in RiskLevels, o \in ToneSummaries, m \in RecRemedies }

\* one evaluation of _generate_recommendations
Derive ==
    /\ rpc = "in"
    /\ rout' = generate_recommendations(rin.situation, rin.legal_summary, rin.remedy)
    /\ rpc' = "out"
    /\ UNCHANGED <<rin, rprev>>

\* a second evaluation on the same input with only urgency.level changed
ToggleUrgency ==
    /\ rpc = "out"
    /\ rprev = <<>>
    /\ \E u \in UrgencyLevels \ {rin.situation.urgency.level} :
          rin' = [rin EXCEPT !.situation.urgency.level = u]
    /\ rprev' = <<[in |-> rin, out |-> rout]>>
    /\ rout' = EmptyRecommendations
    /\ rpc' = "in"

(***************************************************************************)
(* print_analysis_summary: the contradictions section                      *)
(***************************************************************************)

\* isinstance(contradiction, dict)
IsDict(c) == c.kind = "dict"

\* contradiction.get(key, default): a dict answers with the value or the
\* default; any other object has no such method and the call raises
MethodGet(c, key, default) ==
    IF c.kind # "dict"
    THEN [raised |-> TRUE, val |-> "AttributeError"]
    ELSE [raised |-> FALSE,
          val |-> IF key \in DOMAIN c.fields THEN c.fields[key] ELSE default]

\* f"{contradiction}": a string formats as itself, a dict as its repr
Format(c) ==
    IF c.kind = "str" THEN c.val ELSE "{repr of the record}"

\* a mutant: the record branch without the isinstance test
RenderContradictionNoTypeTest(c) ==
    MethodGet(c, "description", "Unknown contradiction")

\* a mutant: the record branch formats the record itself
RenderContradictionNoDescription(c) ==
    [raised |-> FALSE, val |-> Format(c)]

\* the text of one contradiction on its numbered line
RenderContradiction(c) ==
    IF IsDict(c)
    THEN MethodGet(c, "description", "Unknown contradiction")
    ELSE [raised |-> FALSE, val |-> Format(c)]

\* the for loop over enumerate(contradictions, 1), from index i on: the lines
\* printed, and whether an exception ended the loop
RECURSIVE PrintContradictionLines(_, _)
PrintContradictionLines(contradictions, i) ==
    IF i > Len(contradictions)
    THEN [lines |-> <<>>, raised |-> FALSE]
    ELSE LET r == RenderContradiction(contradictions[i])
         IN  IF r.raised
             THEN [lines |-> <<>>, raised |-> TRUE]
             ELSE LET rest == PrintContradictionLines(contradictions, i + 1)
                  IN  [lines |-> << [line |-> "numbered", n |-> i, text |-> r.val] >> \o rest.lines,
                       raised |-> rest.raised]

\* the contradictions section: a header with the count, then the numbered lines
PrintContradictions(contradictions) ==
    IF Len(contradictions) > 0
    THEN LET body == PrintContradictionLines(contradictions, 1)
         IN  [lines |-> << [line |-> "CONTRADICTIONS DETECTED", n |-> Len(contradictions), text |-> ""] >>
                        \o body.lines,
              raised |-> body.raised]
    ELSE [lines |-> <<>>, raised |-> FALSE]

MaxContradictions == 3

\* the shapes a contradiction can take: a bare string, or a record with or
\* without a description
ContradictionValues ==
    { [kind |-> "str", val |-> "Clause 2 conflicts with clause 5"],
      [kind |-> "str", val |-> "Fee stated twice"],
      [kind |-> "dict", fields |-> [description |-> "Clause 1 contradicts clause 3", clause_refs |-> <<1, 3>>]],
      [kind |-> "dict", fields |-> [description |-> "Fee stated twice"]],
      [kind |-> "dict", fields |-> [clause_refs |-> <<2, 4>>]] }

RECURSIVE SeqsUpTo(_, _)
SeqsUpTo(S, n) ==
    IF n = 0 THEN {<<>>}
    ELSE LET shorter == SeqsUpTo(S, n - 1)
         IN  shorter \cup {Append(q, x) : q \in shorter, x \in S}

PrintSection ==
    /\ spc = "in"
    /\ sout' = PrintContradictions(sin)
    /\ spc' = "out"
    /\ UNCHANGED sin

(***************************************************************************)
(* The process environment and VeroBrixSystem.__init__                     *)
(***************************************************************************)

\* the clock has a finer resolution than the second that strftime keeps
TicksPerSecond == 2
\* the last tick of the clock
MaxClock == 2
\* constructions and analyze_situation calls a behaviour can make in all
MaxOps == 4
\* exceptions (of collaborators and of the write) a behaviour can see in all
MaxFaults == 1

Instances == 1..MaxOps
NoSession == -1

\* instances constructed so far
Constructed == {i \in Instances : session_id[i] # NoSession}

\* operations made so far
Ops == Cardinality(Constructed) + ncalls

\* datetime.now().strftime("%Y%m%d_%H%M%S"): the time cut to the whole second
SessionIdAt(t) == t \div TicksPerSecond

\* f"output/verobrix_analysis_{self.session_id}.json"
Filename(sid) == <<"output/verobrix_analysis_", sid, ".json">>

Filenames == {Filename(SessionIdAt(t)) : t \in 0..MaxClock}

Absent == [kind |-> "absent"]
\* a file opened with mode 'w' (emptied) whose json.dump did not finish
Partial == [kind |-> "partial"]
\* json.dump(results, f, indent=2, ensure_ascii=False): the whole document
JsonDump(results) == [kind |-> "json", indent |-> 2, doc |-> results]

\* log_provenance("VeroBrix System", message): the call, added to the calls
\* made so far
log_provenance(l, message) ==
    Append(l, [actor |-> "VeroBrix System", message |-> message])

\* time passes
Tick ==
    /\ clock < MaxClock
    /\ clock' = clock + 1
    /\ UNCHANGED <<fs, log, session_id, events, ret, ncalls, nfaults, lastok, wrote, mpc, loaded, stdout>>

\* self.session_id and the log entry of __init__ (the directories logs/ and
\* output/ hold no artifact of their own)
InitSystem(i) ==
    /\ session_id[i] = NoSession
    /\ \A j \in Instances : j < i => session_id[j] # NoSession
    /\ session_id' = [session_id EXCEPT ![i] = SessionIdAt(clock)]
    /\ log' = log_provenance(log, <<"Initialized new session: ", SessionIdAt(clock)>>)

\* VeroBrixSystem() called by a program that uses the class
Construct(i) ==
    /\ mpc = "none"
    /\ Ops < MaxOps
    /\ InitSystem(i)
    /\ UNCHANGED <<clock, fs, events, ret, ncalls, nfaults, lastok, wrote, mpc, loaded, stdout>>

(***************************************************************************)
(* analyze_situation                                                       *)
(***************************************************************************)

\* ---- what the caller passes and what the collaborators can do

Texts == {"", "Officer Johnson issued a citation and demands a fee of $50."}
NoContext == [none |-> TRUE]

\* the collaborators are deterministic: what each returns (when it does not
\* raise) is fixed by the text. The empty text degrades to an unknown
\* situation without clauses or contradictions.
SituationOf(input_text) ==
    IF input_text = ""
    THEN RecSituation("unknown", "low", "statutory")
    ELSE [ type |-> "traffic_stop",
           urgency |-> [level |-> "high"],
           jurisdiction |-> [primary |-> "commercial", secondary |-> <<"statutory">>],
           entities |-> [people |-> <<"Officer Johnson">>, organizations |-> <<>>],
           legal_framework |-> "statutory" ]
ClausesOf(input_text) ==
    IF input_text = "" THEN <<>> ELSE <<"A fee of $50 is due", "No fee is due">>
ContradictionsOf(input_text) ==
    IF input_text = "" THEN <<>>
    ELSE << BareContradiction,
            [kind |-> "dict", fields |-> [description |-> "Fee stated twice", clause_refs |-> <<1, 2>>]] >>
LegalStructureOf(input_text) ==
    IF input_text = "" THEN [obligations |-> <<>>] ELSE [obligations |-> <<"pay">>]
ToneOf(input_text) ==
    IF input_text = "" THEN [tone |-> "neutral"] ELSE [tone |-> "negative"]
RisksOf(input_text) ==
    IF input_text = "" THEN <<>>
    ELSE << [level |-> "HIGH", description |-> "Demand without stated authority"] >>
LegalSummaryOf(input_text) ==
    IF input_text = ""
    THEN [risk_level |-> "LOW", tone_summary |-> "neutral"]
    ELSE [risk_level |-> "HIGH", tone_summary |-> "negative"]
\* the remedy synthesizer's answer to a request
RemedyResult(request) ==
    [legal_strategies |-> <<"Challenge jurisdiction">>, contradictions |-> request.contradictions]

Collaborators ==
    { "interpret_situation", "extract_clauses", "detect_contradictions",
      "analyze_legal_structure", "interpret_tone", "analyze_legal_risk",
      "generate_legal_summary", "synthesize_remedy" }

\* how the with-block of _save_analysis_results can end: the file is written;
\* open() raises and the file is untouched; json.dump raises after open() has
\* emptied the file
SaveOutcomes == {"saved", "open_failed", "dump_failed"}

\* one way the world can behave during a call on a text: which collaborator
\* raises (if any), what the others return, how the write ends
Behaviours(input_text) ==
    { b \in [ raises : Collaborators \cup {"none"},
              situation : {SituationOf(input_text)},
              clauses : {ClausesOf(input_text)},
              contradictions : {ContradictionsOf(input_text)},
              legal_structure : {LegalStructureOf(input_text)},
              tone_analysis : {ToneOf(input_text)},
              legal_risks : {RisksOf(input_text)},
              legal_summary : {LegalSummaryOf(input_text)},
              save : SaveOutcomes ] :
        \* a run that raises never reaches the write
        b.raises # "none" => b.save = "saved" }

NoValue == <<>>

LogEv(message) ==
    [ev |-> "log", fn |-> "log_provenance", args |-> message, out |-> NoValue, raised |-> FALSE]
CallEv(fn, args, out) ==
    [ev |-> "call", fn |-> fn, args |-> args, out |-> out, raised |-> FALSE]
RaiseEv(fn, args) ==
    [ev |-> "call", fn |-> fn, args |-> args, out |-> NoValue, raised |-> TRUE]

\* ---- a run of analyze_situation: its position, its locals and what it has
\* ---- done to the log and to the output directory so far

\* the frame on entry, with the "Starting" entry logged
Enter(self_session_id, now, input_text, context, log0, fs0) ==
    [ pc |-> "step1", self_session_id |-> self_session_id, now |-> now,
      input_text |-> input_text, context |-> context,
      situation |-> NoValue, clauses |-> NoValue, contradictions |-> NoValue,
      legal_structure |-> NoValue, tone_analysis |-> NoValue, legal_risks |-> NoValue,
      legal_summary |-> NoValue, remedy |-> NoValue, results |-> NoValue,
      save |-> "none", opened |-> {}, raised_by |-> "none",
      log |-> log_provenance(log0, <<"Starting comprehensive situation analysis">>),
      events |-> <<LogEv(<<"Starting comprehensive situation analysis">>)>>,
      fs |-> fs0 ]

\* log_provenance(...) inside the run
Emit(r, message) ==
    [r EXCEPT !.log = log_provenance(@, message), !.events = Append(@, LogEv(message))]

\* a mutant: a failing collaborator is caught at the call and the run goes on
CallCollaboratorCatching(r, fn, args, out, b, var, next) ==
    IF b.raises = fn
    THEN [r EXCEPT !.events = Append(@, RaiseEv(fn, args)), ![var] = out, !.pc = next]
    ELSE [r EXCEPT !.events = Append(@, CallEv(fn, args, out)), ![var] = out, !.pc = next]

\* a collaborator call: it returns `out`, stored in the local `var`, or it
\* raises; nothing in analyze_situation catches, so a raise ends the run
CallCollaborator(r, fn, args, out, b, var, next) ==
    IF b.raises = fn
    THEN [r EXCEPT !.events = Append(@, RaiseEv(fn, args)), !.pc = "raised", !.raised_by = fn]
    ELSE [r EXCEPT !.events = Append(@, CallEv(fn, args, out)), ![var] = out, !.pc = next]

Step1(r, b) ==
    IF r.pc # "step1" THEN r
    ELSE CallCollaborator(Emit(r, <<"Step 1: Interpreting situation with SituationInterpreter">>),
           "interpret_situation", <<r.input_text, r.context>>, b.situation, b, "situation", "step2")

Step2(r, b) ==
    IF r.pc # "step2" THEN r
    ELSE CallCollaborator(Emit(r, <<"Step 2: Extracting clauses with JARVIS">>),
           "extract_clauses", <<r.input_text>>, b.clauses, b, "clauses", "step3")

Step3(r, b) ==
    IF r.pc # "step3" THEN r
    ELSE CallCollaborator(Emit(r, <<"Step 3: Detecting contradictions with JARVIS">>),
           "detect_contradictions", <<r.clauses>>, b.contradictions, b, "contradictions", "step4")

Step4(r, b) ==
    IF r.pc # "step4" THEN r
    ELSE CallCollaborator(Emit(r, <<"Step 4: Analyzing legal structure with JARVIS">>),
           "analyze_legal_structure", <<r.input_text>>, b.legal_structure, b, "legal_structure", "step5")

\* step 5, second call: analyze_legal_risk, with no log entry of its own
Step5Risk(r, b) ==
    IF r.pc # "step5_risk" THEN r
    ELSE CallCollaborator(r, "analyze_legal_risk", <<r.input_text>>, b.legal_risks, b,
                          "legal_risks", "step6")

\* step 5: one log entry, then interpret_tone and analyze_legal_risk
Step5(r, b) ==
    IF r.pc # "step5" THEN r
    ELSE Step5Risk(CallCollaborator(Emit(r, <<"Step 5: Analyzing tone and risks with FRIDAY">>),
                     "interpret_tone", <<r.input_text>>, b.tone_analysis, b,
                     "tone_analysis", "step5_risk"), b)

Step6(r, b) ==
    IF r.pc # "step6" THEN r
    ELSE CallCollaborator(Emit(r, <<"Step 6: Generating legal summary with FRIDAY">>),
           "generate_legal_summary", <<r.input_text, r.tone_analysis, r.legal_risks>>,
           b.legal_summary, b, "legal_summary", "step7")

\* the projection handed to the remedy synthesizer
remedy_input(r) ==
    [ type |-> r.situation.type,
      risk_level |-> r.legal_summary.risk_level,
      contradictions |-> r.contradictions,
      tone_analysis |-> r.tone_analysis,
      urgency |-> r.situation.urgency,
      jurisdiction |-> r.situation.jurisdiction,
      legal_framework |-> r.situation.legal_framework ]

Step7(r, b) ==
    IF r.pc # "step7" THEN r
    ELSE CallCollaborator(Emit(r, <<"Step 7: Synthesizing remedy">>),
           "synthesize_remedy", <<remedy_input(r)>>, RemedyResult(remedy_input(r)), b,
           "remedy", "compile")

\* the results dict
Results(r) ==
    [ session_id |-> r.self_session_id,
      timestamp |-> r.now,
      input |-> [raw_text |-> r.input_text, context |-> r.context],
      situation_analysis |-> r.situation,
      legal_analysis |->
        [ clauses |-> r.clauses,
          contradictions |-> r.contradictions,
          legal_structure |-> r.legal_structure,
          tone_analysis |-> r.tone_analysis,
          legal_risks |-> r.legal_risks,
          legal_summary |-> r.legal_summary ],
      remedy |-> r.remedy,
      recommendations |-> generate_recommendations(r.situation, r.legal_summary, r.remedy) ]

\* the frame with its results local set
WithResults(r, results) ==
    [r EXCEPT !.results = results, !.pc = "save",
              !.events = Append(@, CallEv("_generate_recommendations",
                            <<r.situation, r.legal_summary, r.remedy>>, results.recommendations))]

\* "Compile comprehensive results"
Compile(r) ==
    IF r.pc # "compile" THEN r ELSE WithResults(r, Results(r))

SaveMessage(filename, outcome) ==
    CASE outcome = "saved" -> <<"Analysis results saved to ", filename>>
      [] outcome = "open_failed" -> <<"Error saving results: ", "open">>
      [] OTHER -> <<"Error saving results: ", "json.dump">>

\* the file after the with-block
Written(old, results, outcome) ==
    CASE outcome = "saved" -> JsonDump(results)
      [] outcome = "open_failed" -> old
      [] OTHER -> Partial

\* the with-block on `filename`, ending as `outcome`
WithOpen(r, filename, outcome) ==
    [r EXCEPT !.fs[filename] = Written(@, r.results, outcome),
              !.opened = IF outcome = "open_failed" THEN {} ELSE {filename},
              !.save = outcome]

\* the return of _save_analysis_results, after its log entry
Saved(r, filename) ==
    Emit([r EXCEPT !.pc = "complete",
                   !.events = Append(@, CallEv("_save_analysis_results", <<r.results>>, r.save))],
         SaveMessage(filename, r.save))

\* a mutant: an exception of the with-block is not caught
SaveAnalysisResultsUncaught(r, b) ==
    IF r.pc # "save" THEN r
    ELSE IF b.save = "saved"
         THEN Saved(WithOpen(r, Filename(r.self_session_id), b.save), Filename(r.self_session_id))
         ELSE [WithOpen(r, Filename(r.self_session_id), b.save) EXCEPT
                 !.pc = "raised", !.raised_by = "_save_analysis_results",
                 !.events = Append(@, RaiseEv("_save_analysis_results", <<r.results>>))]

\* _save_analysis_results(results): every exception of the with-block is
\* caught and logged
SaveAnalysisResults(r, b) ==
    IF r.pc # "save" THEN r
    ELSE Saved(WithOpen(r, Filename(r.self_session_id), b.save), Filename(r.self_session_id))

\* the last log entry and `return results`
Complete(r) ==
    IF r.pc # "complete" THEN r
    ELSE [Emit(r, <<"Comprehensive analysis completed">>) EXCEPT !.pc = "returned"]

\* a mutant: contradictions are detected on the raw text and before the
\* clauses are extracted
AnalyzeSituationStepsSwapped(r, b) ==
    LET s3 == CallCollaborator(Emit(Step1(r, b), <<"Step 3: Detecting contradictions with JARVIS">>),
                "detect_contradictions", <<r.input_text>>, b.contradictions, b, "contradictions", "step2")
        s2 == IF s3.pc # "step2" THEN s3
              ELSE CallCollaborator(Emit(s3, <<"Step 2: Extracting clauses with JARVIS">>),
                     "extract_clauses", <<r.input_text>>, b.clauses, b, "clauses", "step4")
    IN  Complete(SaveAnalysisResults(Compile(Step7(Step6(Step5(Step4(
          IF Step1(r, b).pc # "step2" THEN Step1(r, b) ELSE s2, b), b), b), b)), b))

\* the body of analyze_situation from the frame on entry to its end: every
\* step acts only at its own position, so a run that raised stays where it is
AnalyzeSituation(r, b) ==
    Complete(SaveAnalysisResults(Compile(
      Step7(Step6(Step5(Step4(Step3(Step2(Step1(r, b), b), b), b), b), b), b)), b))

\* how a run left analyze_situation, with what the artifact held on entry
\* and where the log ended on exit
Outcome(i, r, before) ==
    [ kind |-> IF r.pc = "returned" THEN "result" ELSE "raised",
      inst |-> i,
      value |-> IF r.pc = "returned" THEN r.results ELSE NoValue,
      raised_by |-> r.raised_by,
      save |-> r.save,
      before |-> before,
      log_end |-> Len(r.log) ]

NoOutcome ==
    [kind |-> "none", inst |-> 0, value |-> NoValue, raised_by |-> "none",
     save |-> "none", before |-> Absent, log_end |-> 0]

\* what a finished run r of instance i leaves behind
Leave(i, r) ==
    /\ log' = r.log
    /\ fs' = r.fs
    /\ events' = r.events
    /\ ret' = Outcome(i, r, fs[Filename(session_id[i])])
    /\ lastok' = IF r.save = "saved" THEN [lastok EXCEPT ![i] = <<r.results>>] ELSE lastok
    /\ wrote' = [wrote EXCEPT ![i] = @ \cup r.opened]
    /\ nfaults' = nfaults + (IF r.pc = "raised" \/ r.save \in {"open_failed", "dump_failed"} THEN 1 ELSE 0)

\* analyze_situation(input_text, situation_context) on instance i, from entry
\* to return or raise
analyze_situation(i, input_text, context) ==
    /\ session_id[i] # NoSession
    /\ \E b \in Behaviours(input_text) :
         /\ (b.raises # "none" \/ b.save # "saved") => nfaults < MaxFaults
         /\ Leave(i, AnalyzeSituation(Enter(session_id[i], clock, input_text, context, log, fs), b))
    /\ ncalls' = ncalls + 1

\* analyze_situation called by a program that uses the class
Analyze(i, input_text, context) ==
    /\ mpc = "none"
    /\ Ops < MaxOps
    /\ analyze_situation(i, input_text, context)
    /\ UNCHANGED <<clock, session_id, mpc, loaded, stdout>>

(***************************************************************************)
(* print_analysis_summary                                                  *)
(***************************************************************************)

\* str.upper() on the strings the summary upper-cases
Upper(str) ==
    CASE str = "traffic_stop" -> "TRAFFIC_STOP"
      [] str = "fee_demand" -> "FEE_DEMAND"
      [] str = "court_summons" -> "COURT_SUMMONS"
      [] str = "debt_collection" -> "DEBT_COLLECTION"
      [] str = "unknown" -> "UNKNOWN"
      [] str = "low" -> "LOW"
      [] str = "medium" -> "MEDIUM"
      [] str = "high" -> "HIGH"
      [] str = "commercial" -> "COMMERCIAL"
      [] str = "statutory" -> "STATUTORY"
      [] OTHER -> str

\* ', '.join(items): kept as the list of its parts
Join(items) == items

Line(label, n, text) == [line |-> label, n |-> n, text |-> text]
ListLine(label, items) == [line |-> label, n |-> Len(items), text |-> "", items |-> items]

\* a section that is printed only for a non-empty list: a header and one
\* line per element
Section(header, label, items) ==
    IF Len(items) > 0
    THEN <<Line(header, 0, "")>> \o [k \in 1..Len(items) |-> Line(label, 0, items[k])]
    ELSE <<>>

RiskLines(risks) ==
    IF Len(risks) > 0
    THEN <<Line("LEGAL RISKS IDENTIFIED", Len(risks), "")>>
         \o [k \in 1..Len(risks) |->
               [line |-> "RISK", n |-> 0, text |-> risks[k].description, level |-> risks[k].level]]
    ELSE <<>>

\* lines 192 to 214: title, basic information, jurisdiction, key entities
SummaryHead(results) ==
    << Line("====", 60, ""), Line("VEROBRIX LEGAL ANALYSIS SUMMARY", 0, ""), Line("====", 60, ""),
       Line("Session ID", results.session_id, ""),
       Line("Analysis Time", results.timestamp, ""),
       Line("Situation Type", 0, Upper(results.situation_analysis.type)),
       Line("Risk Level", 0, results.legal_analysis.legal_summary.risk_level),
       Line("Urgency", 0, Upper(results.situation_analysis.urgency.level)),
       Line("Primary Jurisdiction", 0, Upper(results.situation_analysis.jurisdiction.primary)) >>
    \o (IF Len(results.situation_analysis.jurisdiction.secondary) > 0
        THEN <<ListLine("Secondary Jurisdictions",
                 [k \in 1..Len(results.situation_analysis.jurisdiction.secondary) |->
                    Upper(results.situation_analysis.jurisdiction.secondary[k])])>>
        ELSE <<>>)
    \o (IF Len(results.situation_analysis.entities.people) > 0
        THEN <<ListLine("People Involved", Join(results.situation_analysis.entities.people))>>
        ELSE <<>>)
    \o (IF Len(results.situation_analysis.entities.organizations) > 0
        THEN <<ListLine("Organizations", Join(results.situation_analysis.entities.organizations))>>
        ELSE <<>>)

\* lines 226 to 254: risks, immediate actions, warnings, strategies, rule
SummaryTail(results) ==
    RiskLines(results.legal_analysis.legal_risks)
    \o Section("IMMEDIATE ACTIONS REQUIRED", "action", results.recommendations.immediate_actions)
    \o Section("WARNINGS", "warning", results.recommendations.warnings)
    \o Section("RECOMMENDED LEGAL STRATEGIES", "strategy", results.remedy.legal_strategies)
    \o <<Line("====", 60, "")>>

\* the summary with its contradictions section in place: what is printed,
\* and whether an exception ended the printing
WithContradictions(results, section) ==
    IF section.raised
    THEN [lines |-> SummaryHead(results) \o section.lines, raised |-> TRUE]
    ELSE [lines |-> SummaryHead(results) \o section.lines \o SummaryTail(results), raised |-> FALSE]

print_analysis_summary(results) ==
    WithContradictions(results, PrintContradictions(results.legal_analysis.contradictions))

(***************************************************************************)
(* main()                                                                  *)
(***************************************************************************)

ErrorLine == Line("An error occurred during analysis: ", 0, "")
MissingInputLine == Line("Please create the file 'intake/sample_document.txt' with some text.", 0, "")

\* system = VeroBrixSystem()
MainConstruct ==
    /\ mpc = "start"
    /\ InitSystem(1)
    /\ mpc' = "load"
    /\ UNCHANGED <<clock, fs, events, ret, ncalls, nfaults, lastok, wrote, loaded, stdout>>

\* "Load input document": the file is read, or it is missing, or reading it
\* raises anything else (no permission, undecodable bytes)
MainLoad ==
    /\ mpc = "load"
    /\ \/ \E input_text \in Texts :
            /\ loaded' = input_text
            /\ log' = log_provenance(log, <<"Successfully loaded 'intake/sample_document.txt'">>)
            /\ mpc' = "analyze"
            /\ UNCHANGED stdout
       \/ /\ log' = log_provenance(log, <<"Error: 'intake/sample_document.txt' not found">>)
          /\ stdout' = Append(stdout, MissingInputLine)
          /\ mpc' = "exit_not_found"
          /\ UNCHANGED loaded
       \/ /\ log' = log_provenance(log, <<"Error loading input file: ", "Exception">>)
          /\ mpc' = "exit_load_error"
          /\ UNCHANGED <<loaded, stdout>>
    /\ UNCHANGED <<clock, fs, session_id, events, ret, ncalls, nfaults, lastok, wrote>>

\* results = system.analyze_situation(input_text), inside the try block
MainAnalyze ==
    /\ mpc = "analyze"
    /\ analyze_situation(1, loaded, NoContext)
    /\ mpc' = IF ret'.kind = "raised" THEN "except" ELSE "report"
    /\ UNCHANGED <<clock, session_id, loaded, stdout>>

DocumentLines(sid) ==
    << Line("====", 60, ""), Line("DOCUMENT GENERATION EXAMPLE", 0, ""), Line("====", 60, "") >>

\* the rest of the try block: the summary, the example document, the path
MainReport ==
    /\ mpc = "report"
    /\ \/ /\ print_analysis_summary(ret.value).raised
          /\ stdout' = stdout \o print_analysis_summary(ret.value).lines
          /\ mpc' = "except"
          /\ UNCHANGED log
       \/ /\ ~print_analysis_summary(ret.value).raised
          /\ log' = log_provenance(log, <<"Generating document: ", "traffic_stop">>)
          /\ \/ /\ stdout' = stdout \o print_analysis_summary(ret.value).lines
                               \o DocumentLines(session_id[1])
                               \o << Line("Generated Notice of Lawful Travel:", 0, ""),
                                     Line("----", 40, ""),
                                     Line("document", 0, "Notice of Lawful Travel"),
                                     [line |-> "Full analysis results saved to: ", n |-> 0, text |-> "",
                                      items |-> Filename(session_id[1])] >>
                /\ mpc' = "done"
             \/ \* generate_document raises
                /\ stdout' = stdout \o print_analysis_summary(ret.value).lines
                               \o DocumentLines(session_id[1])
                /\ mpc' = "except"
    /\ UNCHANGED <<clock, fs, session_id, events, ret, ncalls, nfaults, lastok, wrote, loaded>>

\* except Exception as e: one log entry, one printed line
MainExcept ==
    /\ mpc = "except"
    /\ log' = log_provenance(log, <<"Error during analysis: ", "Exception">>)
    /\ stdout' = Append(stdout, ErrorLine)
    /\ mpc' = "done"
    /\ UNCHANGED <<clock, fs, session_id, events, ret, ncalls, nfaults, lastok, wrote, loaded>>

(***************************************************************************)
(* Specification: programs that construct systems and analyze              *)
(***************************************************************************)

SysInit ==
    /\ clock = 0
    /\ fs = [f \in Filenames |-> Absent]
    /\ log = <<>>
    /\ session_id = [i \in Instances |-> NoSession]
    /\ events = <<>>
    /\ ret = NoOutcome
    /\ ncalls = 0
    /\ nfaults = 0
    /\ lastok = [i \in Instances |-> <<>>]
    /\ wrote = [i \in Instances |-> {}]
    /\ loaded = ""
    /\ stdout = <<>>

NoOutput == [lines |-> <<>>, raised |-> FALSE]
RecIdle == rpc = "none" /\ rin = <<>> /\ rout = <<>> /\ rprev = <<>>
SumIdle == spc = "none" /\ sin = <<>> /\ sout = NoOutput

Init == SysInit /\ mpc = "none" /\ RecIdle /\ SumIdle

Next ==
    \/ Tick /\ UNCHANGED <<recVars, sumVars>>
    \/ \E i \in Instances : Construct(i) /\ UNCHANGED <<recVars, sumVars>>
    \/ \E i \in Instances, input_text \in Texts :
         Analyze(i, input_text, NoContext) /\ UNCHANGED <<recVars, sumVars>>

Spec == Init /\ [][Next]_vars

(***************************************************************************)
(* Specification: one run of main()                                        *)
(***************************************************************************)

InitMain == SysInit /\ mpc = "start" /\ RecIdle /\ SumIdle

NextMain ==
    \/ Tick /\ UNCHANGED <<recVars, sumVars>>
    \/ MainConstruct /\ UNCHANGED <<recVars, sumVars>>
    \/ MainLoad /\ UNCHANGED <<recVars, sumVars>>
    \/ MainAnalyze /\ UNCHANGED <<recVars, sumVars>>
    \/ MainReport /\ UNCHANGED <<recVars, sumVars>>
    \/ MainExcept /\ UNCHANGED <<recVars, sumVars>>

SpecMain == InitMain /\ [][NextMain]_vars

(***************************************************************************)
(* Specifications of the two functions on their own                        *)
(***************************************************************************)

InitRec ==
    /\ SysInit /\ mpc = "none" /\ SumIdle
    /\ rpc = "in" /\ rin \in RecInputs /\ rout = EmptyRecommendations /\ rprev = <<>>

NextRec ==
    \/ Derive /\ UNCHANGED <<sysVars, sumVars>>
    \/ ToggleUrgency /\ UNCHANGED <<sysVars, sumVars>>

SpecRec == InitRec /\ [][NextRec]_vars

InitSum ==
    /\ SysInit /\ mpc = "none" /\ RecIdle
    /\ spc = "in" /\ sin \in SeqsUpTo(ContradictionValues, MaxContradictions) /\ sout = NoOutput

NextSum == PrintSection /\ UNCHANGED <<sysVars, recVars>>

SpecSum == InitSum /\ [][NextSum]_vars

(***************************************************************************)
(* Properties of _generate_recommendations (checked under SpecRec)         *)
(***************************************************************************)

TableTypes == {"traffic_stop", "fee_demand", "court_summons"}

ExpectedUrgencyPart(input) ==
    IF input.situation.urgency.level = "high"
    THEN << "URGENT: Time-sensitive situation detected",
            "Review all deadlines and timelines immediately",
            "Consider emergency legal consultation" >>
    ELSE <<>>

ExpectedRiskPart(input) ==
    IF input.legal_summary.risk_level = "HIGH"
    THEN << "HIGH RISK: Seek immediate legal counsel" >>
    ELSE <<>>

ExpectedTablePart(input) ==
    CASE input.situation.type = "traffic_stop" ->
           << "Document all details of the encounter", "Preserve any evidence" >>
      [] input.situation.type = "fee_demand" ->
           << "Do not pay without challenging authority", "Request fee schedule" >>
      [] input.situation.type = "court_summons" ->
           << "Calculate response deadline", "Preserve all rights" >>
      [] OTHER -> <<>>

\* C7: immediate_actions is exactly the urgency strings (if urgency.level is
\* 'high'), then the risk string (if risk_level is 'HIGH'), then the table's
\* immediate list (if the type is in the table), in that order and with
\* nothing removed; high + HIGH + traffic_stop gives 6 entries.
C7_ImmediateActionsAreTheConcatenation ==
    rpc = "out" =>
      /\ rout.immediate_actions =
           ExpectedUrgencyPart(rin) \o ExpectedRiskPart(rin) \o ExpectedTablePart(rin)
      /\ ( /\ rin.situation.urgency.level = "high"
           /\ rin.legal_summary.risk_level = "HIGH"
           /\ rin.situation.type = "traffic_stop" )
         => Len(rout.immediate_actions) = 6

C7_Witness ==
    /\ rpc = "out"
    /\ rin.situation.urgency.level = "high"
    /\ rin.legal_summary.risk_level = "HIGH"
    /\ rin.situation.type = "traffic_stop"
    /\ Len(rout.immediate_actions) = 6
    /\ rout.immediate_actions[4] = "HIGH RISK: Seek immediate legal counsel"
    /\ rout.immediate_actions[5] = "Document all details of the encounter"

\* two inputs that differ only in urgency.level, one 'low' and one 'high'
UrgencyTogglePair ==
    /\ rpc = "out"
    /\ rprev # <<>>
    /\ {rprev[1].in.situation.urgency.level, rin.situation.urgency.level} = {"low", "high"}

\* C8: for two inputs that differ only in urgency.level ('high' versus 'low'),
\* the outputs agree on short_term_actions, long_term_actions, warnings and
\* opportunities, and the immediate_actions of the 'high' one are the 3
\* urgency strings followed by the immediate_actions of the 'low' one.
C8_UrgencyToggleChangesOnlyUrgencyActions ==
    UrgencyTogglePair =>
      LET a == rprev[1].out
          b == rout
          hi == IF rin.situation.urgency.level = "high" THEN b ELSE a
          lo == IF rin.situation.urgency.level = "high" THEN a ELSE b
      IN  /\ a.short_term_actions = b.short_term_actions
          /\ a.long_term_actions = b.long_term_actions
          /\ a.warnings = b.warnings
          /\ a.opportunities = b.opportunities
          /\ hi.immediate_actions =
               << "URGENT: Time-sensitive situation detected",
                  "Review all deadlines and timelines immediately",
                  "Consider emergency legal consultation" >> \o lo.immediate_actions

C8_Witness ==
    /\ UrgencyTogglePair
    /\ rin.situation.urgency.level = "high"
    /\ rin.legal_summary.risk_level = "HIGH"
    /\ rin.situation.type = "fee_demand"
    /\ Len(rout.immediate_actions) = Len(rprev[1].out.immediate_actions) + 3

\* C9: for a situation type outside the table, nothing comes from the table
\* and the other rules still apply: long_term_actions is empty,
\* short_term_actions holds at most the contradiction action, and
\* immediate_actions holds only what the urgency and risk rules give (nothing
\* when urgency is not 'high' and risk is not 'HIGH').
C9_UnknownTypeAddsNothingFromTheTable ==
    (rpc = "out" /\ rin.situation.type \notin TableTypes) =>
      /\ rout.long_term_actions = <<>>
      /\ rout.short_term_actions =
           IF "contradictions" \in DOMAIN rin.remedy /\ rin.remedy.contradictions # <<>>
           THEN << "Challenge contradictory provisions in documents" >>
           ELSE <<>>
      /\ rout.immediate_actions = ExpectedUrgencyPart(rin) \o ExpectedRiskPart(rin)
      /\ (rin.situation.urgency.level # "high" /\ rin.legal_summary.risk_level # "HIGH")
           => rout.immediate_actions = <<>>
      /\ rout.warnings =
           IF rin.legal_summary.risk_level = "HIGH"
           THEN << "Situation contains high-risk legal elements" >> ELSE <<>>
      /\ Len(rout.opportunities) =
           (IF rin.legal_summary.tone_summary = "positive" THEN 1 ELSE 0)
           + (IF rin.situation.jurisdiction.primary = "commercial" THEN 1 ELSE 0)

C9_Witness ==
    /\ rpc = "out"
    /\ rin.situation.type = "unknown"
    /\ rin.situation.urgency.level = "high"
    /\ rin.legal_summary.risk_level = "LOW"
    /\ rout.short_term_actions = << "Challenge contradictory provisions in documents" >>
    /\ Len(rout.immediate_actions) = 3
    /\ rout.long_term_actions = <<>>

(***************************************************************************)
(* Properties of the contradictions section (checked under SpecSum)        *)
(***************************************************************************)

\* C10: for a list mixing bare strings and records the section prints one
\* numbered line per element in list order, a bare string verbatim, a record
\* by its 'description' or by 'Unknown contradiction' when it has none; it
\* never raises, and prints nothing (no header) for the empty list.
C10_ContradictionsPrintedInEitherShape ==
    spc = "out" =>
      /\ ~sout.raised
      /\ sin = <<>> => sout.lines = <<>>
      /\ sin # <<>> =>
           /\ Len(sout.lines) = Len(sin) + 1
           /\ sout.lines[1].line = "CONTRADICTIONS DETECTED"
           /\ sout.lines[1].n = Len(sin)
           /\ \A i \in 1..Len(sin) :
                /\ sout.lines[i + 1].line = "numbered"
                /\ sout.lines[i + 1].n = i
                /\ sout.lines[i + 1].text =
                     IF sin[i].kind = "str" THEN sin[i].val
                     ELSE IF "description" \in DOMAIN sin[i].fields
                          THEN sin[i].fields.description
                          ELSE "Unknown contradiction"

C10_Witness ==
    /\ spc = "out"
    /\ Len(sin) = 3
    /\ sin[1].kind = "str"
    /\ sin[2].kind = "dict" /\ "description" \notin DOMAIN sin[2].fields
    /\ sin[3].kind = "dict" /\ "description" \in DOMAIN sin[3].fields
    /\ Len(sout.lines) = 4
    /\ sout.lines[2].text = sin[1].val
    /\ sout.lines[3].text = "Unknown contradiction"
    /\ sout.lines[4].text = sin[3].fields.description

(***************************************************************************)
(* Properties of analyze_situation, of the artifact and of main()          *)
(***************************************************************************)

IsPrefix(a, b) == Len(a) <= Len(b) /\ SubSeq(b, 1, Len(a)) = a
Last(q) == q[Len(q)]
Messages(l) == [k \in 1..Len(l) |-> l[k].message]
\* the n entries of l that end at position e
EntriesTo(l, e, n) == SubSeq(l, e - n + 1, e)
NoArtifacts == [f \in Filenames |-> Absent]

\* the projection of the collaborators' answers on a text that the remedy
\* synthesizer is to receive
ExpectedProjection(text) ==
    [ type |-> SituationOf(text).type,
      risk_level |-> LegalSummaryOf(text).risk_level,
      contradictions |-> ContradictionsOf(text),
      tone_analysis |-> ToneOf(text),
      urgency |-> SituationOf(text).urgency,
      jurisdiction |-> SituationOf(text).jurisdiction,
      legal_framework |-> SituationOf(text).legal_framework ]

\* the Analysis Result of a call at time `now` on a text whose write succeeds
ExpectedResult(sid, now, text, context) ==
    [ session_id |-> sid,
      timestamp |-> now,
      input |-> [raw_text |-> text, context |-> context],
      situation_analysis |-> SituationOf(text),
      legal_analysis |->
        [ clauses |-> ClausesOf(text),
          contradictions |-> ContradictionsOf(text),
          legal_structure |-> LegalStructureOf(text),
          tone_analysis |-> ToneOf(text),
          legal_risks |-> RisksOf(text),
          legal_summary |-> LegalSummaryOf(text) ],
      remedy |-> RemedyResult(ExpectedProjection(text)),
      recommendations |-> generate_recommendations(SituationOf(text), LegalSummaryOf(text),
                                                   RemedyResult(ExpectedProjection(text))) ]

\* the log entries and calls of a completed call, in the order of the steps
ExpectedEvents(text, context, results, save) ==
    << LogEv(<<"Starting comprehensive situation analysis">>),
       LogEv(<<"Step 1: Interpreting situation with SituationInterpreter">>),
       CallEv("interpret_situation", <<text, context>>, SituationOf(text)),
       LogEv(<<"Step 2: Extracting clauses with JARVIS">>),
       CallEv("extract_clauses", <<text>>, ClausesOf(text)),
       LogEv(<<"Step 3: Detecting contradictions with JARVIS">>),
       CallEv("detect_contradictions", <<ClausesOf(text)>>, ContradictionsOf(text)),
       LogEv(<<"Step 4: Analyzing legal structure with JARVIS">>),
       CallEv("analyze_legal_structure", <<text>>, LegalStructureOf(text)),
       LogEv(<<"Step 5: Analyzing tone and risks with FRIDAY">>),
       CallEv("interpret_tone", <<text>>, ToneOf(text)),
       CallEv("analyze_legal_risk", <<text>>, RisksOf(text)),
       LogEv(<<"Step 6: Generating legal summary with FRIDAY">>),
       CallEv("generate_legal_summary", <<text, ToneOf(text), RisksOf(text)>>, LegalSummaryOf(text)),
       LogEv(<<"Step 7: Synthesizing remedy">>),
       CallEv("synthesize_remedy", <<ExpectedProjection(text)>>, RemedyResult(ExpectedProjection(text))),
       CallEv("_generate_recommendations",
              <<SituationOf(text), LegalSummaryOf(text), RemedyResult(ExpectedProjection(text))>>,
              results.recommendations),
       CallEv("_save_analysis_results", <<results>>, save),
       LogEv(SaveMessage(Filename(results.session_id), save)),
       LogEv(<<"Comprehensive analysis completed">>) >>

\* the messages a completed call adds to the log
ExpectedLog(results, save) ==
    << <<"Starting comprehensive situation analysis">>,
       <<"Step 1: Interpreting situation with SituationInterpreter">>,
       <<"Step 2: Extracting clauses with JARVIS">>,
       <<"Step 3: Detecting contradictions with JARVIS">>,
       <<"Step 4: Analyzing legal structure with JARVIS">>,
       <<"Step 5: Analyzing tone and risks with FRIDAY">>,
       <<"Step 6: Generating legal summary with FRIDAY">>,
       <<"Step 7: Synthesizing remedy">>,
       SaveMessage(Filename(results.session_id), save),
       <<"Comprehensive analysis completed">> >>

\* C1: if a collaborator call inside analyze_situation raises, the raise is
\* the last thing the call does (no later step runs), the call returns no
\* Analysis Result and writes no artifact, and main() prints exactly one
\* error line and no summary.
C1_CollaboratorFailurePropagates ==
    (\E k \in 1..Len(events) : events[k].raised) =>
        /\ Last(events).raised /\ Last(events).fn \in Collaborators
        /\ \A k \in 1..(Len(events) - 1) : ~events[k].raised
        /\ ret.kind = "raised" /\ ret.value = NoValue /\ ret.raised_by = Last(events).fn
        /\ ret.save = "none" /\ wrote[1] = {} /\ fs = NoArtifacts
        /\ mpc \in {"except", "done"}
        /\ mpc = "except" => stdout = <<>>
        /\ mpc = "done" => stdout = <<ErrorLine>>

C1_Witness ==
    /\ mpc = "done"
    /\ ret.kind = "raised" /\ ret.raised_by = "generate_legal_summary"
    /\ Len(events) > 1
    /\ stdout = <<ErrorLine>>

\* C2: when the write inside _save_analysis_results fails, analyze_situation
\* still returns, the Analysis Result it returns is the one of a call whose
\* write succeeds, and the failure is an entry of the provenance log.
C2_SaveFailureLeavesTheResultAlone ==
    (\/ ret.save \in {"open_failed", "dump_failed"}
     \/ \E k \in 1..Len(events) : events[k].fn = "_save_analysis_results" /\ events[k].raised) =>
        /\ ret.kind = "result"
        /\ ret.value = ExpectedResult(session_id[ret.inst], ret.value.timestamp,
                                      ret.value.input.raw_text, NoContext)
        /\ ret.value.input.raw_text \in Texts
        /\ ret.value.timestamp \in 0..clock
        /\ Messages(EntriesTo(log, ret.log_end, 2)) = << SaveMessage(Filename(session_id[ret.inst]), ret.save),
                                       <<"Comprehensive analysis completed">> >>
        /\ Messages(EntriesTo(log, ret.log_end, 2))[1][1] = "Error saving results: "

C2_Witness ==
    /\ ret.kind = "result"
    /\ ret.save = "dump_failed"
    /\ ret.value.recommendations.immediate_actions # <<>>
    /\ fs[Filename(session_id[ret.inst])] = Partial

\* the part of C3 that a state shows: the calls and log entries of a
\* completed call
C3_StepsOfACompletedCall ==
    ret.kind = "result" =>
        /\ events = ExpectedEvents(ret.value.input.raw_text, ret.value.input.context,
                                   ret.value, ret.save)
        /\ Messages(EntriesTo(log, ret.log_end, 10)) = ExpectedLog(ret.value, ret.save)

\* C3: in every analyze_situation call that completes the steps run once each
\* in the fixed order, each on the values the earlier steps produced, each
\* "Step N" entry before the call of step N; the log gains Starting, Step 1 to
\* Step 7, the save outcome and completed in this order, and it only grows.
C3_FixedStepOrderAndGrowingLog ==
    /\ []C3_StepsOfACompletedCall
    /\ [][IsPrefix(log, log')]_vars

C3_Witness ==
    /\ ret.kind = "result"
    /\ ret.save = "saved"
    /\ Len(events) = 20
    /\ ret.value.legal_analysis.contradictions # <<>>
    /\ Len(log) > 12

\* the instance is the only one with its session_id
AloneOnItsPath(i) ==
    \A j \in Constructed : j # i => session_id[j] # session_id[i]

\* C4: an instance writes to one artifact path only, derived from the
\* session_id fixed at construction, every returned Analysis Result carries
\* that session_id, and the artifact holds the result of the most recent call
\* whose write succeeded.
C4_ArtifactHoldsTheLastSuccessfulWrite ==
    /\ ret.kind = "result" => ret.value.session_id = session_id[ret.inst]
    /\ \A i \in Constructed :
         /\ wrote[i] \subseteq {Filename(session_id[i])}
         /\ (AloneOnItsPath(i) /\ lastok[i] # <<>>) =>
                fs[Filename(session_id[i])] = JsonDump(lastok[i][1])

\* a later call whose write fails after open() leaves an emptied artifact,
\* where an earlier call of the same, only instance had written its result
C4_Witness ==
    /\ Cardinality(Constructed) = 1
    /\ lastok[1] # <<>>
    /\ ret.kind = "result" /\ ret.save = "dump_failed"
    /\ ret.before = JsonDump(lastok[1][1])
    /\ fs[Filename(session_id[1])] = Partial

\* C5: two distinct instances never write to the same artifact path.
C5_ArtifactUniquelyNamed ==
    \A i, j \in Instances : i # j => wrote[i] \cap wrote[j] = {}

\* two instances constructed within one second share the path, and the
\* artifact of the first holds the result of the second
C5_Witness ==
    \E i, j \in Constructed :
        /\ i # j
        /\ session_id[i] = session_id[j]
        /\ lastok[i] # <<>> /\ lastok[j] # <<>> /\ lastok[i] # lastok[j]
        /\ wrote[i] = wrote[j]
        /\ fs[Filename(session_id[i])] = JsonDump(lastok[j][1])

\* C6: when the input file is missing or unreadable main() ends without
\* calling analyze_situation and without writing an artifact, and in both
\* cases it prints a message.
C6_MissingOrUnreadableInputIsShown ==
    mpc \in {"exit_not_found", "exit_load_error"} =>
        /\ ncalls = 0
        /\ fs = NoArtifacts
        /\ stdout # <<>>

\* the input file exists but cannot be read: the run ends with a log entry
\* and nothing printed
C6_Witness ==
    /\ mpc = "exit_load_error"
    /\ ncalls = 0
    /\ stdout = <<>>
    /\ Last(log).message[1] = "Error loading input file: "

====
